---- MODULE Spec2Model ----
(***************************************************************************)
(* A model of count_cpfps.py: the per-block CPFP counter get_block_data,   *)
(* the thread pool that runs one get_block_data task per block height, the *)
(* driver loop that folds the results into the module-level accumulators,  *)
(* and the final report.                                                   *)
(*                                                                         *)
(* Data.  A transaction is the dict the node returns, [txid, vin]; an      *)
(* input is a dict that has the key "txid" (a spend) or lacks it (the      *)
(* coinbase input), modelled as a record whose DOMAIN is tested the way    *)
(* the code tests `"txid" not in txin`.  Identifiers are opaque in the     *)
(* code (only compared and put in sets), so the txid of the k-th           *)
(* transaction of a block is k, and 0 is an identifier of no transaction   *)
(* of the block (an output confirmed in an earlier block).                 *)
(*                                                                         *)
(* Percentages.  count / txs_count * 100 is a float in the code.  The      *)
(* float is a function of the rational 100*count/txs_count alone, and it   *)
(* is strictly monotone on rationals whose denominators are block sizes,   *)
(* so a percentage is modelled as that rational in lowest terms,           *)
(* <<numerator, denominator>>, compared by cross-multiplication.           *)
(***************************************************************************)
EXTENDS Integers, Sequences, FiniteSets, TLC

VARIABLES
    block_txs, ret,
    chain, height, tasks, futures, i, pc, exception, report_lines,
    total_transactions, total_child_count, total_parent_count,
    min_child_percentage, max_child_percentage,
    min_parent_percentage, max_parent_percentage,
    candidate_count, candidate_parent_count

accumulators ==
    <<total_transactions, total_child_count, total_parent_count,
      min_child_percentage, max_child_percentage,
      min_parent_percentage, max_parent_percentage,
      candidate_count, candidate_parent_count>>

driver_vars == <<chain, height, tasks, futures, i, pc, exception, report_lines>>

vars == <<block_txs, ret, driver_vars, accumulators>>

(***************************************************************************)
(* Bounds of the model.                                                    *)
(***************************************************************************)
\* Largest number of transactions of a block (the coinbase included).
MaxTxs == 4
\* Inputs, beyond its first, of the one transaction of a block that has several.
MaxExtraInputs == 1
\* Number of heights of the inspected range.
NumHeights == 3
\* Threads of the pool (ThreadPoolExecutor's max_workers).
MaxWorkers == 2

\* Line 19.
START_BLOCK_HEIGHT == 798551
\* Line 20, with the range cut to NumHeights heights.
STOP_BLOCK_HEIGHT == START_BLOCK_HEIGHT + NumHeights - 1

\* Python's None.
None == <<>>

(***************************************************************************)
(* The blocks the node can return.                                         *)
(***************************************************************************)
\* The coinbase transaction's only input: a dict without the key "txid".
CoinbaseVin == <<[coinbase |-> 0]>>

\* The inputs of a block's non-coinbase transactions laid end to end: slot k
\* belongs to transaction owner[k]; every such transaction has an input, and
\* at most one of them has several.
Owners(n, m) ==
    {o \in [1..m -> 2..n] :
        /\ \A k \in 1..(m - 1) : o[k] <= o[k + 1]
        /\ \A t \in 2..n : \E k \in 1..m : o[k] = t
        /\ \A k, l \in 1..(m - 1) : (o[k] = o[k + 1] /\ o[l] = o[l + 1]) => o[k] = o[l]}

InputCounts(n) == IF n = 1 THEN {0} ELSE (n - 1)..(n - 1 + MaxExtraInputs)

MkBlock(n, owner, refs) ==
    [t \in 1..n |->
        [txid |-> t,
         vin  |-> IF t = 1 THEN CoinbaseVin
                  ELSE LET slots == {k \in DOMAIN owner : owner[k] = t}
                           lo == CHOOSE k \in slots : \A l \in slots : k <= l
                       IN [j \in 1..Cardinality(slots) |-> [txid |-> refs[lo + j - 1]]]]]

(***************************************************************************)
(* get_block_data, lines 54-84: the counting.                              *)
(***************************************************************************)
\* Line 54.
BlockTxids(txs) == {txs[k].txid : k \in DOMAIN txs}

\* Lines 57-59: "Ignore empty blocks."
IsEmptyBlock(txs_count) == txs_count = 1

\* Lines 75-76: record the parent if it is new.
RecordParent(parent_txids, txid) ==
    IF txid \notin parent_txids THEN parent_txids \cup {txid} ELSE parent_txids

\* A counter that counts a child once per in-block input.
RecordChildPerInput(is_child, child_count) == child_count + 1

\* Lines 78-80: record the child if it was not already; the new child_count.
RecordChild(is_child, child_count) ==
    IF ~is_child THEN child_count + 1 ELSE child_count

\* A loop that takes an input without a "txid" key for a spend of the block.
RECURSIVE ScanVinNoCoinbaseSkip(_, _, _, _)
ScanVinNoCoinbaseSkip(vin, j, block_txids, st) ==
    IF j > Len(vin) THEN st
    ELSE LET txin == vin[j] IN
         IF "txid" \notin DOMAIN txin
         THEN ScanVinNoCoinbaseSkip(vin, j + 1, block_txids,
                     [is_child     |-> TRUE,
                      child_count  |-> RecordChild(st.is_child, st.child_count),
                      parent_txids |-> st.parent_txids])
         ELSE IF txin.txid \in block_txids
              THEN ScanVinNoCoinbaseSkip(vin, j + 1, block_txids,
                     [is_child     |-> TRUE,
                      child_count  |-> RecordChild(st.is_child, st.child_count),
                      parent_txids |-> RecordParent(st.parent_txids, txin.txid)])
              ELSE ScanVinNoCoinbaseSkip(vin, j + 1, block_txids, st)

\* Lines 68-80: the loop over one transaction's inputs, from input j on.
\* st = [is_child, child_count, parent_txids].
RECURSIVE ScanVin(_, _, _, _)
ScanVin(vin, j, block_txids, st) ==
    IF j > Len(vin) THEN st
    ELSE LET txin == vin[j] IN
         IF "txid" \notin DOMAIN txin
         THEN ScanVin(vin, j + 1, block_txids, st)
         ELSE IF txin.txid \in block_txids
              THEN ScanVin(vin, j + 1, block_txids,
                     [is_child     |-> TRUE,
                      child_count  |-> RecordChild(st.is_child, st.child_count),
                      parent_txids |-> RecordParent(st.parent_txids, txin.txid)])
              ELSE ScanVin(vin, j + 1, block_txids, st)

\* A counter that takes the children for the candidates.
RecordCandidateInverted(candidates_txids, is_child, txid) ==
    IF is_child THEN candidates_txids \cup {txid} ELSE candidates_txids

\* A counter that takes every transaction for a candidate.
RecordCandidateAlways(candidates_txids, is_child, txid) == candidates_txids \cup {txid}

\* Lines 81-82: a transaction that is no child is a fee-estimation candidate.
RecordCandidate(candidates_txids, is_child, txid) ==
    IF ~is_child THEN candidates_txids \cup {txid} ELSE candidates_txids

\* Lines 64-82: the loop over the block's transactions, from transaction k on.
\* acc = [child_count, parent_txids, candidates_txids].
RECURSIVE ScanTxs(_, _, _, _)
ScanTxs(txs, k, block_txids, acc) ==
    IF k > Len(txs) THEN acc
    ELSE LET tx == txs[k]
             st == ScanVin(tx.vin, 1, block_txids,
                           [is_child     |-> FALSE,
                            child_count  |-> acc.child_count,
                            parent_txids |-> acc.parent_txids])
         IN ScanTxs(txs, k + 1, block_txids,
                    [child_count      |-> st.child_count,
                     parent_txids     |-> st.parent_txids,
                     candidates_txids |->
                         RecordCandidate(acc.candidates_txids, st.is_child, tx.txid)])

\* A result that counts every parent as a candidate parent.
ResultTupleAllParents(txs_count, acc) ==
    <<txs_count, acc.child_count, Cardinality(acc.parent_txids),
      Cardinality(acc.candidates_txids), Cardinality(acc.parent_txids)>>

\* Line 84: the returned tuple.
ResultTuple(txs_count, acc) ==
    <<txs_count, acc.child_count, Cardinality(acc.parent_txids),
      Cardinality(acc.candidates_txids),
      Cardinality(acc.parent_txids \cap acc.candidates_txids)>>

\* Lines 54-84: what get_block_data returns for the transactions of a block.
CountCpfps(txs) ==
    LET block_txids == BlockTxids(txs)
        txs_count == Cardinality(block_txids)
    IN IF IsEmptyBlock(txs_count) THEN None
       ELSE ResultTuple(txs_count,
                ScanTxs(txs, 1, block_txids,
                        [child_count |-> 0, parent_txids |-> {},
                         candidates_txids |-> {}]))

(***************************************************************************)
(* What the counts are, stated on the block itself.                        *)
(***************************************************************************)
\* The identifiers the inputs of the k-th transaction reference.
Spent(txs, k) ==
    {txs[k].vin[j].txid :
        j \in {l \in DOMAIN txs[k].vin : "txid" \in DOMAIN txs[k].vin[l]}}

\* Identifiers of the transactions that spend an output of the block.
ChildTxids(txs) ==
    {txs[k].txid : k \in {l \in DOMAIN txs : Spent(txs, l) \cap BlockTxids(txs) # {}}}

\* Identifiers of the block that some input references.
ParentTxids(txs) ==
    {t \in BlockTxids(txs) : \E k \in DOMAIN txs : t \in Spent(txs, k)}

CandidateTxids(txs) == BlockTxids(txs) \ ChildTxids(txs)

\* [coinbase, A, B, C], B spending A and C spending B.
TwoDeepChain == MkBlock(4, <<2, 3, 4>>, <<0, 2, 3>>)

\* [coinbase, A, B], B spending two outputs of A.
TwoInputsOneParent == MkBlock(3, <<2, 3, 3>>, <<0, 2, 2>>)

\* Every input references a transaction placed earlier in the block, or none.
BackwardOnly(txs) == \A k \in DOMAIN txs : \A t \in Spent(txs, k) : t < txs[k].txid

Analyzed == ret.done /\ ret.value # None

\* C1: for a block of at least two transactions get_block_data returns
\* (number of identifiers, number of transactions with an in-block input,
\* number of distinct in-block identifiers referenced, number of non-children,
\* number of identifiers that are parents and candidates); for
\* [coinbase, A, B, C] with B spending A and C spending B it is (4, 2, 2, 2, 1).
C1_ExactCounts ==
    (ret.done /\ Len(block_txs) >= 2) =>
        /\ ret.value = <<Cardinality(BlockTxids(block_txs)),
                         Cardinality(ChildTxids(block_txs)),
                         Cardinality(ParentTxids(block_txs)),
                         Cardinality(CandidateTxids(block_txs)),
                         Cardinality(ParentTxids(block_txs) \cap CandidateTxids(block_txs))>>
        /\ block_txs = TwoDeepChain => ret.value = <<4, 2, 2, 2, 1>>
        /\ block_txs = TwoInputsOneParent => ret.value = <<3, 1, 1, 2, 1>>

C1_Witness == ret.done /\ block_txs = TwoDeepChain /\ ret.value = <<4, 2, 2, 2, 1>>

\* C3 as stated: for every analyzed block, child_count <= tx_count - 1 and
\* parent_count <= tx_count - 1.
C3_Original ==
    Analyzed => /\ ret.value[2] <= ret.value[1] - 1
                /\ ret.value[3] <= ret.value[1] - 1

\* C3 amended: for every analyzed block, child_count <= tx_count - 1 and
\* parent_count <= tx_count; parent_count <= tx_count - 1 when every input
\* references a transaction placed earlier in the block or none of the block.
C3_Bounds ==
    Analyzed => /\ ret.value[2] <= ret.value[1] - 1
                /\ ret.value[3] <= ret.value[1]
                /\ BackwardOnly(block_txs) => ret.value[3] <= ret.value[1] - 1

\* A block whose every transaction, the coinbase included, is a parent.
C3_Witness ==
    Analyzed /\ ret.value[3] = ret.value[1] /\ ret.value[2] = ret.value[1] - 1

\* C4: for every analyzed block candidate_count + child_count = tx_count, and
\* each transaction is a child or a candidate, never both.
C4_CandidatesPlusChildren ==
    Analyzed => /\ ret.value[4] + ret.value[2] = ret.value[1]
                /\ ret.value[4] = Cardinality(CandidateTxids(block_txs))
                /\ CandidateTxids(block_txs) \cap ChildTxids(block_txs) = {}
                /\ CandidateTxids(block_txs) \cup ChildTxids(block_txs)
                       = BlockTxids(block_txs)

C4_Witness == Analyzed /\ ret.value[2] >= 2 /\ ret.value[4] >= 2

\* C5: for every analyzed block candidate_parent_count <= min(parent_count,
\* candidate_count), and a transaction that is both a parent and a child is
\* not counted in candidate_parent_count.
C5_CandidateParents ==
    Analyzed => /\ ret.value[5] <= ret.value[3]
                /\ ret.value[5] <= ret.value[4]
                /\ ret.value[5] =
                       Cardinality(ParentTxids(block_txs) \ ChildTxids(block_txs))

\* The middle of a chain: a parent that is a child, left out of the count.
C5_Witness ==
    /\ Analyzed
    /\ ParentTxids(block_txs) \cap ChildTxids(block_txs) # {}
    /\ ret.value[5] >= 1
    /\ ret.value[5] < ret.value[3]

(***************************************************************************)
(* The counter alone: a block is drawn and get_block_data's counting is    *)
(* applied to it.                                                          *)
(***************************************************************************)
InitCount ==
    /\ \E n \in 1..MaxTxs : \E m \in InputCounts(n) :
         \E owner \in Owners(n, m) : \E refs \in [1..m -> 0..n] :
            block_txs = MkBlock(n, owner, refs)
    /\ ret = [done |-> FALSE, value |-> None]
    /\ chain = <<>> /\ height = 0 - 1 /\ tasks = <<>> /\ futures = <<>> /\ i = 0 - 1
    /\ pc = "count" /\ exception = None /\ report_lines = 0
    /\ total_transactions = 0 /\ total_child_count = 0 /\ total_parent_count = 0
    /\ min_child_percentage = None /\ max_child_percentage = <<0, 1>>
    /\ min_parent_percentage = None /\ max_parent_percentage = <<0, 1>>
    /\ candidate_count = 0 /\ candidate_parent_count = 0

Count ==
    /\ pc = "count"
    /\ ~ret.done
    /\ ret' = [done |-> TRUE, value |-> CountCpfps(block_txs)]
    /\ UNCHANGED <<block_txs, driver_vars, accumulators>>

NextCount == Count

SpecCount == InitCount /\ [][NextCount]_vars

(***************************************************************************)
(* get_block_data, lines 40-53: the connection and the two requests.       *)
(***************************************************************************)
\* What the node does while a task runs: it answers ("none"), or it reports
\* HTTP 503 to a request of lines 52-53 ("call"), or the construction of the
\* client at line 46 reports it ("connect").
Faults == {"none", "connect", "call"}

Return(value, attempts) ==
    [kind |-> "return", value |-> value, exc |-> "", attempts |-> attempts]

Raise(exc, attempts) ==
    [kind |-> "raise", value |-> None, exc |-> exc, attempts |-> attempts]

\* A get_block_data that asks again after a 503 and returns the counts.
get_block_data_retry(fault, txs) ==
    IF fault = "none" THEN Return(CountCpfps(txs), 1) ELSE Return(CountCpfps(txs), 2)

\* Lines 40-84.  The handler of lines 47-51 guards line 46 alone, and naming
\* JSONRPCException, which the module never imports, raises NameError before
\* line 48 is reached; a 503 of lines 52-53 is outside the try and propagates.
\* attempts counts the requests for the height's block.
get_block_data(fault, txs) ==
    IF fault = "connect" THEN Raise("NameError", 0)
    ELSE IF fault = "call" THEN Raise("JSONRPCException", 1)
    ELSE Return(CountCpfps(txs), 1)

(***************************************************************************)
(* The driver's fold, lines 101-122.                                       *)
(***************************************************************************)
RECURSIVE GCD(_, _)
GCD(a, b) == IF b = 0 THEN a ELSE GCD(b, a % b)

\* Lines 113 and 118: count / txs_count * 100, as a rational in lowest terms.
Percentage(count, txs_count) ==
    LET g == GCD(count * 100, txs_count)
    IN <<(count * 100) \div g, txs_count \div g>>

\* The float comparison a < b.
PercentageLess(a, b) == a[1] * b[2] < b[1] * a[2]

\* A lower bound that keeps the last percentage seen.
UpdateMinLast(min_percentage, percentage) == percentage

\* Lines 114-115 and 119-120.
UpdateMin(min_percentage, percentage) ==
    IF min_percentage = None \/ PercentageLess(percentage, min_percentage)
    THEN percentage ELSE min_percentage

\* Lines 116-117 and 121-122.
UpdateMax(max_percentage, percentage) ==
    IF PercentageLess(max_percentage, percentage)
    THEN percentage ELSE max_percentage

\* The accumulators of lines 29-37 as one value.
Accumulated ==
    [total_transactions     |-> total_transactions,
     total_child_count      |-> total_child_count,
     total_parent_count     |-> total_parent_count,
     min_child_percentage   |-> min_child_percentage,
     max_child_percentage   |-> max_child_percentage,
     min_parent_percentage  |-> min_parent_percentage,
     max_parent_percentage  |-> max_parent_percentage,
     candidate_count        |-> candidate_count,
     candidate_parent_count |-> candidate_parent_count]

\* Lines 29-37.
InitialAccumulators ==
    [total_transactions     |-> 0,
     total_child_count      |-> 0,
     total_parent_count     |-> 0,
     min_child_percentage   |-> None,
     max_child_percentage   |-> <<0, 1>>,
     min_parent_percentage  |-> None,
     max_parent_percentage  |-> <<0, 1>>,
     candidate_count        |-> 0,
     candidate_parent_count |-> 0]

\* Lines 103-122: the totals and the bounds after one more result.
UpdateTotals(acc, res) ==
    LET txs_count == res[1]
        child_count == res[2]
        parent_count == res[3]
        child_percentage == Percentage(child_count, txs_count)
        parent_percentage == Percentage(parent_count, txs_count)
    IN [total_transactions     |-> acc.total_transactions + txs_count,
        total_child_count      |-> acc.total_child_count + child_count,
        total_parent_count     |-> acc.total_parent_count + parent_count,
        min_child_percentage   |-> UpdateMin(acc.min_child_percentage, child_percentage),
        max_child_percentage   |-> UpdateMax(acc.max_child_percentage, child_percentage),
        min_parent_percentage  |-> UpdateMin(acc.min_parent_percentage, parent_percentage),
        max_parent_percentage  |-> UpdateMax(acc.max_parent_percentage, parent_percentage),
        candidate_count        |-> acc.candidate_count + res[4],
        candidate_parent_count |-> acc.candidate_parent_count + res[5]]

\* A fold that takes an empty block for a block of one transaction, no child
\* and no parent.
FoldResultEmptyAsZero(acc, res) ==
    IF res = None THEN UpdateTotals(acc, <<1, 0, 0, 1, 0>>) ELSE UpdateTotals(acc, res)

\* Lines 99-122: "Result is None for empty blocks", which are skipped.
FoldResult(acc, res) ==
    IF res = None THEN acc ELSE UpdateTotals(acc, res)

(***************************************************************************)
(* The pool and the driver, lines 89-133.                                  *)
(***************************************************************************)
Heights == START_BLOCK_HEIGHT..STOP_BLOCK_HEIGHT

\* The blocks of the inspected range: a coinbase-only block, [coinbase, A, B]
\* unrelated, the two-deep chain, two inputs spending one parent, and
\* [coinbase, A] with A spending the coinbase's identifier.
CoinbaseOnly == MkBlock(1, <<>>, <<>>)
Unrelated == MkBlock(3, <<2, 3>>, <<0, 0>>)
SpendsCoinbase == MkBlock(2, <<2>>, <<1>>)
NodeBlocks == {CoinbaseOnly, Unrelated, TwoDeepChain, TwoInputsOneParent, SpendsCoinbase}

NoException == [type |-> "", line |-> 0]

\* A loop variable (height, i) before its for statement binds it.
Unbound == 0 - 1

\* A driver that collects the futures last submitted first.
FutureToCollectReversed(futs, idx) == futs[Len(futs) - idx]

\* Line 94: enumerate(futures), the idx-th future in submission order.
FutureToCollect(futs, idx) == futs[idx + 1]

\* Line 91: the exclusive end of range(START_BLOCK_HEIGHT, STOP_BLOCK_HEIGHT + 1).
RangeEnd == STOP_BLOCK_HEIGHT + 1

\* tasks are the Future objects the executor has created, in creation order,
\* each with its work item; futures is the script's list, which holds
\* references to them (their places in tasks).
Running == {k \in DOMAIN tasks : tasks[k].state = "running"}

Init ==
    /\ block_txs = <<>>
    /\ ret = [done |-> FALSE, value |-> None]
    /\ chain \in [Heights -> NodeBlocks]
    /\ height = Unbound
    /\ tasks = <<>>
    /\ futures = <<>>
    /\ i = Unbound
    /\ pc = "for_height"
    /\ exception = NoException
    /\ report_lines = 0
    /\ total_transactions = InitialAccumulators.total_transactions
    /\ total_child_count = InitialAccumulators.total_child_count
    /\ total_parent_count = InitialAccumulators.total_parent_count
    /\ min_child_percentage = InitialAccumulators.min_child_percentage
    /\ max_child_percentage = InitialAccumulators.max_child_percentage
    /\ min_parent_percentage = InitialAccumulators.min_parent_percentage
    /\ max_parent_percentage = InitialAccumulators.max_parent_percentage
    /\ candidate_count = InitialAccumulators.candidate_count
    /\ candidate_parent_count = InitialAccumulators.candidate_parent_count

SetAccumulators(acc) ==
    /\ total_transactions' = acc.total_transactions
    /\ total_child_count' = acc.total_child_count
    /\ total_parent_count' = acc.total_parent_count
    /\ min_child_percentage' = acc.min_child_percentage
    /\ max_child_percentage' = acc.max_child_percentage
    /\ min_parent_percentage' = acc.min_parent_percentage
    /\ max_parent_percentage' = acc.max_parent_percentage
    /\ candidate_count' = acc.candidate_count
    /\ candidate_parent_count' = acc.candidate_parent_count

\* Line 91: the for statement binds height to the next height of the range,
\* or leaves the loop for line 94 with height as it is.
ForHeight ==
    /\ pc = "for_height"
    /\ LET next == IF height = Unbound THEN START_BLOCK_HEIGHT ELSE height + 1 IN
         IF next < RangeEnd
         THEN height' = next /\ pc' = "submit"
         ELSE height' = height /\ pc' = "for_future"
    /\ UNCHANGED <<block_txs, ret, chain, tasks, futures, i, exception, report_lines,
                   accumulators>>

\* Line 92, executor.submit(get_block_data, endpoint, height): the executor
\* creates the Future and queues its work item; pool threads may run the
\* task from here on, before the script has the Future in its list.
SubmitTask ==
    /\ pc = "submit"
    /\ tasks' = Append(tasks,
                  [height |-> height, state |-> "pending", fault |-> "none",
                   outcome |-> Return(None, 0)])
    /\ pc' = "append"
    /\ UNCHANGED <<block_txs, ret, chain, height, futures, i, exception, report_lines,
                   accumulators>>

\* Line 92, futures.append(...) of the Future that submit returned.
AppendFuture ==
    /\ pc = "append"
    /\ futures' = Append(futures, Len(tasks))
    /\ pc' = "for_height"
    /\ UNCHANGED <<block_txs, ret, chain, height, tasks, i, exception, report_lines,
                   accumulators>>

\* A pool thread takes the task that has waited longest (the executor's queue).
Start(k) ==
    /\ tasks[k].state = "pending"
    /\ \A l \in 1..(k - 1) : tasks[l].state # "pending"
    /\ Cardinality(Running) < MaxWorkers
    /\ tasks' = [tasks EXCEPT ![k].state = "running"]
    /\ UNCHANGED <<block_txs, ret, chain, height, futures, i, pc, exception,
                   report_lines, accumulators>>

\* Lines 40-84 in a pool thread: the task's return value or exception is set
\* in its future.
Finish(k) ==
    /\ tasks[k].state = "running"
    /\ \E fault \in Faults :
         tasks' = [tasks EXCEPT
                      ![k].state = "finished",
                      ![k].fault = fault,
                      ![k].outcome = get_block_data(fault, chain[tasks[k].height])]
    /\ UNCHANGED <<block_txs, ret, chain, height, futures, i, pc, exception,
                   report_lines, accumulators>>

\* Line 94: enumerate(futures) binds i and f to the next index and future,
\* or the loop and the executor's with block are left, i keeping the last
\* index (every task has finished by then, so the shutdown does not wait).
ForFuture ==
    /\ pc = "for_future"
    /\ IF i + 1 < Len(futures)
       THEN i' = i + 1 /\ pc' = "set_height"
       ELSE i' = i /\ pc' = "report"
    /\ UNCHANGED <<block_txs, ret, chain, height, tasks, futures, exception,
                   report_lines, accumulators>>

\* Lines 95-97: the module variable height is written and the progress
\* printed; the driver is then about to wait in f.result().
SetHeight ==
    /\ pc = "set_height"
    /\ height' = START_BLOCK_HEIGHT + i
    /\ pc' = "result"
    /\ UNCHANGED <<block_txs, ret, chain, tasks, futures, i, exception, report_lines,
                   accumulators>>

\* Lines 99-122: f.result() waits until a pool thread has finished the task,
\* re-raises its exception or hands its value to the fold.
Result ==
    /\ pc = "result"
    /\ LET f == tasks[FutureToCollect(futures, i)] IN
         /\ f.state = "finished"
         /\ IF f.outcome.kind = "raise"
            THEN /\ pc' = "raised"
                 /\ exception' = [type |-> f.outcome.exc, line |-> 100]
                 /\ UNCHANGED accumulators
            ELSE /\ SetAccumulators(FoldResult(Accumulated, f.outcome.value))
                 /\ pc' = "for_future"
                 /\ UNCHANGED exception
    /\ UNCHANGED <<block_txs, ret, chain, height, tasks, futures, i, report_lines>>

\* Lines 124-128: the averages (two divisions by total_transactions) and the
\* highest percentages.
ReportAverages ==
    /\ pc = "report"
    /\ IF total_transactions = 0
       THEN /\ pc' = "raised"
            /\ exception' = [type |-> "ZeroDivisionError", line |-> 125]
            /\ report_lines' = 1
       ELSE /\ pc' = "assert"
            /\ report_lines' = 5
            /\ UNCHANGED exception
    /\ UNCHANGED <<block_txs, ret, chain, height, tasks, futures, i, accumulators>>

\* Line 129.
AssertMinima ==
    /\ pc = "assert"
    /\ IF min_parent_percentage = None \/ min_child_percentage = None
       THEN /\ pc' = "raised"
            /\ exception' = [type |-> "AssertionError", line |-> 129]
       ELSE /\ pc' = "report_minima"
            /\ UNCHANGED exception
    /\ UNCHANGED <<block_txs, ret, chain, height, tasks, futures, i, report_lines,
                   accumulators>>

\* Lines 130-133: the lowest percentages, then a division by
\* total_transactions and one by candidate_count.
ReportMinima ==
    /\ pc = "report_minima"
    /\ IF total_transactions = 0
       THEN /\ pc' = "raised"
            /\ exception' = [type |-> "ZeroDivisionError", line |-> 132]
            /\ report_lines' = 7
       ELSE IF candidate_count = 0
       THEN /\ pc' = "raised"
            /\ exception' = [type |-> "ZeroDivisionError", line |-> 133]
            /\ report_lines' = 8
       ELSE /\ pc' = "done"
            /\ report_lines' = 9
            /\ UNCHANGED exception
    /\ UNCHANGED <<block_txs, ret, chain, height, tasks, futures, i, accumulators>>

Next ==
    \/ ForHeight
    \/ SubmitTask
    \/ AppendFuture
    \/ \E k \in DOMAIN tasks : Start(k)
    \/ \E k \in DOMAIN tasks : Finish(k)
    \/ ForFuture
    \/ SetHeight
    \/ Result
    \/ ReportAverages
    \/ AssertMinima
    \/ ReportMinima

Spec == Init /\ [][Next]_vars

(***************************************************************************)
(* What the driver's accumulators are, stated on the range and on the      *)
(* results.                                                                *)
(***************************************************************************)
\* The blocks of the first k heights of the range, in height order.
FirstBlocks(k) == [j \in 1..k |-> chain[START_BLOCK_HEIGHT + j - 1]]

\* A strictly sequential run over a sequence of blocks: each block is
\* counted, then folded, before the next one is looked at.
RECURSIVE SequentialRun(_)
SequentialRun(blocks) ==
    IF blocks = <<>> THEN InitialAccumulators
    ELSE FoldResult(SequentialRun(SubSeq(blocks, 1, Len(blocks) - 1)),
                    CountCpfps(blocks[Len(blocks)]))

NotCoinbaseOnly(txs) == Len(txs) # 1

\* The Future object at place k of the script's list.
Future(k) == tasks[futures[k]]

\* The number of futures whose result the driver has taken and folded: the
\* future of index i is not among them while the driver waits for it at
\* line 100 or has stopped there.
Collected ==
    IF pc \in {"set_height", "result"} \/ (pc = "raised" /\ exception.line = 100)
    THEN i ELSE i + 1

\* The results folded so far that are not None.
FoldedResults == {k \in 1..Collected : Future(k).outcome.value # None}

RECURSIVE SumField(_, _)
SumField(ks, field) ==
    IF ks = {} THEN 0
    ELSE LET k == CHOOSE l \in ks : TRUE
         IN Future(k).outcome.value[field] + SumField(ks \ {k}, field)

\* The ratio count/txs_count of a result, times 100, as the pair <<100*count, txs_count>>.
Ratio(k, field) == <<100 * Future(k).outcome.value[field], Future(k).outcome.value[1]>>

SameRatio(a, b) == a[1] * b[2] = b[1] * a[2]

IsMinOf(p, ks, field) ==
    /\ \E k \in ks : SameRatio(p, Ratio(k, field))
    /\ \A k \in ks : p[1] * Ratio(k, field)[2] <= Ratio(k, field)[1] * p[2]

IsMaxOf(p, ks, field) ==
    /\ \E k \in ks : SameRatio(p, Ratio(k, field))
    /\ \A k \in ks : p[1] * Ratio(k, field)[2] >= Ratio(k, field)[1] * p[2]

Reporting == pc \in {"report", "assert", "report_minima", "done"}

\* C2: a coinbase-only block makes get_block_data return None, and the
\* accumulators after any number of collected heights are those of a run
\* over the same blocks with the coinbase-only blocks removed.
C2_EmptyBlocksSkipped ==
    /\ \A k \in DOMAIN tasks :
         (tasks[k].state = "finished" /\ tasks[k].outcome.kind = "return"
             /\ Len(chain[tasks[k].height]) = 1)
         => tasks[k].outcome.value = None
    /\ Accumulated = SequentialRun(SelectSeq(FirstBlocks(Collected), NotCoinbaseOnly))

\* A coinbase-only block was collected after a block that was counted.
C2_Witness ==
    /\ Collected >= 2
    /\ Len(futures) >= 2
    /\ chain[START_BLOCK_HEIGHT] # CoinbaseOnly
    /\ chain[START_BLOCK_HEIGHT + 1] = CoinbaseOnly
    /\ Future(2).outcome.value = None
    /\ total_transactions > 0

\* C6: once a result that is not None was folded, each total is the sum of
\* its field over the folded results that are not None, and the min/max
\* child and parent percentages are the least and greatest of
\* child_count/tx_count and parent_count/tx_count over them.
C6_SumsAndBounds ==
    FoldedResults # {} =>
        /\ total_transactions = SumField(FoldedResults, 1)
        /\ total_child_count = SumField(FoldedResults, 2)
        /\ total_parent_count = SumField(FoldedResults, 3)
        /\ candidate_count = SumField(FoldedResults, 4)
        /\ candidate_parent_count = SumField(FoldedResults, 5)
        /\ min_child_percentage # None
        /\ min_parent_percentage # None
        /\ IsMinOf(min_child_percentage, FoldedResults, 2)
        /\ IsMaxOf(max_child_percentage, FoldedResults, 2)
        /\ IsMinOf(min_parent_percentage, FoldedResults, 3)
        /\ IsMaxOf(max_parent_percentage, FoldedResults, 3)

\* Three results folded, the lowest ratio folded first and the bounds apart.
C6_Witness ==
    /\ Cardinality(FoldedResults) = 3
    /\ PercentageLess(min_child_percentage, max_child_percentage)
    /\ PercentageLess(min_parent_percentage, max_parent_percentage)
    /\ min_child_percentage = Percentage(Future(1).outcome.value[2],
                                         Future(1).outcome.value[1])
    /\ PercentageLess(<<0, 1>>, min_child_percentage)

\* The futures are those of the heights START_BLOCK_HEIGHT on, in order; the
\* driver waits for, or has stopped at, the future of the height line 95 has
\* set; and the accumulators are those of a sequential run over the
\* collected heights.
SubmissionOrder ==
    /\ \A k \in DOMAIN tasks : tasks[k].height = START_BLOCK_HEIGHT + k - 1
    /\ \A k \in DOMAIN futures : futures[k] = k
    /\ Len(futures) <= Len(tasks)
    /\ Len(tasks) <= NumHeights
    /\ pc \notin {"for_height", "submit", "append"} => Len(futures) = NumHeights
    /\ Collected \in 0..Len(futures)
    /\ (pc = "result" \/ (pc = "raised" /\ exception.line = 100)) =>
           /\ height = START_BLOCK_HEIGHT + i
           /\ tasks[FutureToCollect(futures, i)].height = height
    /\ Accumulated = SequentialRun(FirstBlocks(Collected))
    /\ Reporting => (Collected = NumHeights /\ i = NumHeights - 1)

\* C7: whatever the interleaving of the pool threads, the i-th result folded
\* is that of height START_BLOCK_HEIGHT + i, each height once, the workers
\* never write the accumulators (no step that changes a Future, a pool
\* thread's or the executor's, changes them or the driver's variables), and
\* the accumulators equal those of a strictly sequential height-by-height run.
C7_ParallelEqualsSequential ==
    /\ []SubmissionOrder
    /\ [][tasks' # tasks => UNCHANGED <<accumulators, futures, i, height>>]_vars
    /\ [][i' # i => (i' = i + 1 /\ UNCHANGED accumulators)]_vars
    /\ [][Collected' # Collected =>
            (/\ Collected' = Collected + 1
             /\ Future(Collected').height = height
             /\ height = START_BLOCK_HEIGHT + Collected
             /\ Accumulated' = FoldResult(Accumulated, CountCpfps(chain[height])))]_vars

\* The first height is folded and the driver waits at line 100 for the
\* second, whose task is still running although the third height's task has
\* finished.
C7_Witness ==
    /\ pc = "result"
    /\ i = 1
    /\ height = START_BLOCK_HEIGHT + 1
    /\ total_transactions > 0
    /\ Len(futures) >= 3
    /\ Future(2).state = "running"
    /\ Future(3).state = "finished"
    /\ Future(3).outcome.kind = "return"
    /\ chain[START_BLOCK_HEIGHT] # chain[START_BLOCK_HEIGHT + 2]

\* C8 as stated: in a run whose blocks are all coinbase-only the driver
\* stops at the assertion of line 129 and no division by zero is evaluated
\* before it; the assertion holds once a result that is not None was folded.
C8_AssertionGuardsDivision ==
    /\ (pc = "raised" /\ exception.line > 100 /\ total_transactions = 0)
           => (exception.type = "AssertionError" /\ exception.line = 129)
    /\ (pc = "assert" /\ FoldedResults # {})
           => (min_parent_percentage # None /\ min_child_percentage # None)

\* C9: a task during which the node reported 503 asked for its block at most
\* once and raised; the driver then stops at that height's f.result(), with
\* the accumulators of the heights before it and nothing of the report
\* printed, and never reaches the report.
C9_NoRetryOn503 ==
    /\ \A k \in DOMAIN tasks :
         (tasks[k].state = "finished" /\ tasks[k].fault # "none") =>
             /\ tasks[k].outcome.kind = "raise"
             /\ tasks[k].outcome.attempts <= 1
             /\ Collected < k
             /\ ~Reporting
             /\ report_lines = 0
    /\ (pc = "raised" /\ exception.line = 100) =>
             /\ Future(i + 1).fault # "none"
             /\ exception.type = Future(i + 1).outcome.exc
             /\ \A k \in 1..i : Future(k).fault = "none"
             /\ height = START_BLOCK_HEIGHT + i
             /\ Accumulated = SequentialRun(FirstBlocks(i))
             /\ report_lines = 0

\* The driver stopped at the second height, whose task met a 503 at a request.
C9_Witness ==
    /\ pc = "raised"
    /\ exception = [type |-> "JSONRPCException", line |-> 100]
    /\ i = 1
    /\ Future(2).fault = "call"
    /\ total_transactions > 0
    /\ \A k \in DOMAIN futures : Future(k).state = "finished"

\* C10: every counted block has a candidate, so total_transactions > 0
\* implies candidate_count > 0 and the division of line 133 never divides by
\* zero.
C10_CandidatesNonZero ==
    /\ \A k \in DOMAIN tasks :
         (tasks[k].state = "finished" /\ tasks[k].outcome.kind = "return"
             /\ tasks[k].outcome.value # None)
         => tasks[k].outcome.value[4] >= 1
    /\ total_transactions > 0 => candidate_count > 0
    /\ ~(pc = "raised" /\ exception.line = 133)

\* The report was printed to its last line.
C10_Witness ==
    /\ pc = "done"
    /\ report_lines = 9
    /\ candidate_count > 0
    /\ candidate_parent_count = 0

====
